---- MODULE Spec2Model ----
(***************************************************************************)
(* Model of hermes::hbc::BytecodeSerializer (lib/BCGen/HBC/                *)
(* BytecodeStream.cpp): the two-pass (LAYOUT, then EMIT) serializer of a   *)
(* BytecodeModule into a flat bytecode file.                               *)
(*                                                                         *)
(* One action per section of serialize(); the two per-function loops       *)
(* (serializeFunctionsBytecode, and the serializeFunctionInfo loop of      *)
(* serialize) take one step per function.  The stream is modelled by its   *)
(* position loc_ and by the log `out` of every writeBinary /               *)
(* writeBinaryArray call (in which pass, what, for which function, at      *)
(* which position, how many bytes).                                        *)
(***************************************************************************)
EXTENDS Integers, Sequences, FiniteSets, TLC

VARIABLES
    BM,               \* the BytecodeModule (functionTable is mutated)
    options_,         \* BytecodeGenerationOptions
    loc_,             \* stream position
    isLayout_,        \* TRUE in the LAYOUT pass
    fileLength_,      \* recorded by finishLayout
    stringTableBytes_,\* measured by serializeStringTable
    debugInfoOffset_, \* recorded by serializeDebugInfo
    pc,               \* the section serialize() is about to run
    idx,              \* index of the function a per-function loop is at
    bcMap,            \* serializeFunctionsBytecode's DenseMap, as a set of entries
    header,           \* the BytecodeFileHeader written in the current pass
    tableFlags,       \* hasDebugInfo of every SmallFuncHeader written, per pass
    stringOut,        \* compact and overflow string records written in this pass
    debugHeader,      \* the DebugInfoHeader written in the current pass
    out,              \* log of the writes of both passes
    asserts,          \* the assert()s of the code that failed so far
    dedupInLayout,    \* functions the LAYOUT pass found in bcMap
    skippedInEmit,    \* functions the EMIT pass skipped
    setCount,         \* per function: number of setOffset / setInfoOffset calls
    passes,           \* sequence of the passes started ("LAYOUT" / "EMIT")
    resets,           \* number of times loc_ was reset to 0 by finishLayout
    input,            \* the module as it was handed to serialize
    prior,            \* result of an earlier LAYOUT pass on this module, or NoPrior
    cjsOut,           \* the entries serializeCJSModuleTable wrote in its last run
    bodyOut           \* per pass and function: the body bytes written, if any

vars == <<BM, options_, loc_, isLayout_, fileLength_, stringTableBytes_,
          debugInfoOffset_, pc, idx, bcMap, header, tableFlags, stringOut,
          debugHeader, out, asserts, dedupInLayout, skippedInEmit, setCount, passes, resets,
          input, prior, cjsOut, bodyOut>>

----------------------------------------------------------------------------
(* Bounds of the model.                                                    *)
MaxFuncs == 2
MaxOpcodes == 2
MaxStrings == 2
MaxBytes == 3
MaxCJS == 2

----------------------------------------------------------------------------
(* Format constants (hermes/BCGen/HBC/BytecodeFileFormat.h).               *)
INFO_ALIGNMENT == 4
SizeofUint32 == 4
SizeofFileHeader == 128
SizeofSmallFuncHeader == 16
SizeofFunctionHeader == 28
SizeofSmallStringTableEntry == 4
SizeofOverflowStringTableEntry == 8
SizeofRegExpTableEntry == 8
SizeofExceptionHandlerTableHeader == 4
SizeofExceptionHandlerInfo == 12
SizeofDebugOffsets == 8
SizeofDebugInfoHeader == 20
SizeofStringTableEntry == 8
SizeofDebugFileRegion == 12
INVALID_OFFSET == 8388608
INVALID_LENGTH == 255

----------------------------------------------------------------------------
(* Binary stream writer.                                                   *)

\* llvm::alignTo(value, align)
AlignTo(value, align) == ((value + align - 1) \div align) * align

\* pad(alignment): the position after zero bytes up to the next multiple
Pad(loc, alignment) ==
    IF loc % alignment = 0 THEN loc ELSE loc + (alignment - (loc % alignment))

Pass == IF isLayout_ THEN "LAYOUT" ELSE "EMIT"

\* one logged write: pass, kind, function index (0: module level), position, bytes
W(kind, fn, at, len) ==
    [pass |-> Pass, kind |-> kind, fn |-> fn, at |-> at, len |-> len]

NumFunctions == Len(BM.functionTable)

----------------------------------------------------------------------------
(* Inputs: the modules and options serialize() is called with.            *)

\* opcode arrays <<1, ..., n>> and jump tables of zero or one word
OpcodeArrays == {[i \in 1..n |-> i] : n \in 0..MaxOpcodes}
JumpTableArrays == {<<>>, <<1>>}

\* a BytecodeFunction before layout: both offsets are still 0
Functions(opcodeArrays, jumpTableArrays, debugFlags, handlerCounts, overflowFlags) ==
    [opcodes : opcodeArrays, jumpTables : jumpTableArrays,
     hasDebugInfo : debugFlags, numHandlers : handlerCounts,
     overflowed : overflowFlags, offset : {0}, infoOffset : {0}]

FunctionTables(kinds) ==
    UNION {[1..n -> kinds] : n \in 1..MaxFuncs}

\* string descriptors at the edges of the compact encoding
Descriptors ==
    [offset : {INVALID_OFFSET - 1, INVALID_OFFSET},
     length : {INVALID_LENGTH - 1, INVALID_LENGTH}]

StringTables == UNION {[1..n -> Descriptors] : n \in 0..MaxStrings}

\* the CJS module table: dynamic pairs or static entries, never both
CJSTables ==
    {[dynamic |-> [i \in 1..n |-> <<i + MaxCJS, i>>], static |-> <<>>] :
        n \in 0..MaxCJS}
    \cup {[dynamic |-> <<>>, static |-> [i \in 1..n |-> i]] : n \in 1..MaxCJS}

DebugInfos == {[filenameTable |-> 1, filenameStorage |-> 5, files |-> 1,
                lexOffset |-> 2, data |-> 7]}

Modules(tables, stringTables, arraySizes, regExpSizes, cjsTables, cjsOffsets) ==
    [functionTable : tables,
     stringTable : stringTables,
     identifierHashes : {1},
     stringStorage : {5},
     arrayBuffer : arraySizes,
     objKeyBuffer : {2},
     objValueBuffer : {1},
     regExpTable : {1},
     regExpStorage : regExpSizes,
     cjsModuleTable : {c.dynamic : c \in cjsTables},
     cjsModuleTableStatic : {c.static : c \in cjsTables},
     cjsModuleOffset : cjsOffsets,
     globalFunctionIndex : {0},
     debugInfo : DebugInfos]

Options(dedups, strips, pads) ==
    [optimizationEnabled : dedups, stripDebugInfoSection : strips,
     padFunctionBodiesPercent : pads]

NoHeader ==
    [written |-> FALSE, fileLength |-> 0, globalFunctionIndex |-> 0,
     functionCount |-> 0, stringCount |-> 0, identifierCount |-> 0,
     stringTableBytes |-> 0, stringStorageSize |-> 0, regExpTableSize |-> 0,
     regExpStorageSize |-> 0, arrayBufferSize |-> 0, objKeyBufferSize |-> 0,
     objValueBufferSize |-> 0, cjsModuleOffset |-> 0, cjsModuleCount |-> 0,
     debugInfoOffset |-> 0]

NoDebugHeader ==
    [written |-> FALSE, filenameCount |-> 0, filenameStorageSize |-> 0,
     fileCount |-> 0, lexicalDataOffset |-> 0, debugDataSize |-> 0]

NoPrior == [known |-> FALSE, offsets |-> <<>>, infoOffsets |-> <<>>, length |-> 0]

\* the state after constructing a BytecodeSerializer and before serialize(BM)
\* no body written for any of n functions in either pass
NoBodyOut(n) ==
    [pass \in {"LAYOUT", "EMIT"} |->
        [i \in 1..n |-> [owned |-> FALSE, at |-> 0, bytes |-> << >>]]]

\* nothing written by serializeCJSModuleTable yet
NoCJSOut == [written |-> FALSE, entries |-> << >>]

InitWith(modules, opts) ==
    /\ BM \in {m \in modules :
                 m.cjsModuleTable = <<>> \/ m.cjsModuleTableStatic = <<>>}
    /\ input = BM
    /\ options_ \in opts
    /\ loc_ = 0
    /\ isLayout_ = TRUE
    /\ fileLength_ = 0
    /\ stringTableBytes_ = 0
    /\ debugInfoOffset_ = 0
    /\ pc = "serialize"
    /\ idx = 1
    /\ bcMap = {}
    /\ header = NoHeader
    /\ tableFlags = <<>>
    /\ stringOut = [small |-> <<>>, overflow |-> <<>>]
    /\ debugHeader = NoDebugHeader
    /\ out = <<>>
    /\ asserts = {}
    /\ dedupInLayout = {}
    /\ skippedInEmit = {}
    /\ setCount = [i \in 1..Len(BM.functionTable) |-> [offset |-> 0, infoOffset |-> 0]]
    /\ passes = <<>>
    /\ resets = 0
    /\ prior = NoPrior
    /\ cjsOut = NoCJSOut
    /\ bodyOut = NoBodyOut(Len(BM.functionTable))

----------------------------------------------------------------------------
(* serialize(): the file header.                                           *)

\* faulty variant: the count is never negated
CjsModuleCount_Unsigned(bm) ==
    IF bm.cjsModuleTableStatic # <<>>
        THEN Len(bm.cjsModuleTableStatic)
        ELSE Len(bm.cjsModuleTable)

\* cjsModuleCount: the negated size of the static table when it is not
\* empty, else the size of the dynamic table.  The negation is computed on
\* size_t and narrowed to int32_t; for the table sizes of this model (far
\* below 2^31) the narrowing is exact.
CjsModuleCount(bm) ==
    IF bm.cjsModuleTableStatic # <<>>
        THEN 0 - Len(bm.cjsModuleTableStatic)
        ELSE Len(bm.cjsModuleTable)

\* faulty variant: two neighbouring initializers of the header in the wrong order
FileHeader_Swapped(bm, fileLength, stringTableBytes, debugInfoOffset) ==
    [written |-> TRUE,
     fileLength |-> fileLength,
     globalFunctionIndex |-> bm.globalFunctionIndex,
     functionCount |-> Len(bm.functionTable),
     stringCount |-> Len(bm.stringTable),
     identifierCount |-> bm.identifierHashes,
     stringTableBytes |-> stringTableBytes,
     stringStorageSize |-> bm.stringStorage,
     regExpTableSize |-> bm.regExpTable,
     regExpStorageSize |-> bm.regExpStorage,
     arrayBufferSize |-> bm.arrayBuffer,
     objKeyBufferSize |-> bm.objKeyBuffer,
     objValueBufferSize |-> bm.objValueBuffer,
     cjsModuleOffset |-> bm.objValueBuffer,
     cjsModuleCount |-> CjsModuleCount(bm),
     debugInfoOffset |-> debugInfoOffset]

\* the BytecodeFileHeader serialize() builds from the serializer's fields
\* and the module's getters
FileHeader(bm, fileLength, stringTableBytes, debugInfoOffset) ==
    [written |-> TRUE,
     fileLength |-> fileLength,
     globalFunctionIndex |-> bm.globalFunctionIndex,
     functionCount |-> Len(bm.functionTable),
     stringCount |-> Len(bm.stringTable),
     identifierCount |-> bm.identifierHashes,
     stringTableBytes |-> stringTableBytes,
     stringStorageSize |-> bm.stringStorage,
     regExpTableSize |-> bm.regExpTable,
     regExpStorageSize |-> bm.regExpStorage,
     arrayBufferSize |-> bm.arrayBuffer,
     objKeyBufferSize |-> bm.objKeyBuffer,
     objValueBufferSize |-> bm.objValueBuffer,
     cjsModuleOffset |-> bm.cjsModuleOffset,
     cjsModuleCount |-> CjsModuleCount(bm),
     debugInfoOffset |-> debugInfoOffset]

\* serialize(), up to writeBinary(header)
serialize ==
    /\ pc = "serialize"
    /\ header' = FileHeader(BM, fileLength_, stringTableBytes_, debugInfoOffset_)
    /\ out' = Append(out, W("BytecodeFileHeader", 0, loc_, SizeofFileHeader))
    /\ loc_' = loc_ + SizeofFileHeader
    /\ passes' = Append(passes, Pass)
    /\ pc' = "functionTable"
    /\ UNCHANGED <<BM, options_, isLayout_, fileLength_, stringTableBytes_,
                   debugInfoOffset_, idx, bcMap, tableFlags, stringOut,
                   debugHeader, asserts, dedupInLayout, skippedInEmit,
                   setCount, resets, input, prior,
                   cjsOut, bodyOut>>

----------------------------------------------------------------------------
(* serializeFunctionTable                                                  *)

\* faulty variant: the flags are cleared whether stripping is set or not
StrippedTable_Always(ft, strip) ==
    [i \in 1..Len(ft) |-> [ft[i] EXCEPT !.hasDebugInfo = FALSE]]

\* faulty variant: the flag is cleared on a copy: the table keeps its flags
StrippedTable_Keep(ft, strip) == ft

\* the function table after the loop: with stripping every function's
\* hasDebugInfo flag is cleared on the BytecodeFunction itself
StrippedTable(ft, strip) ==
    [i \in 1..Len(ft) |->
        IF strip THEN [ft[i] EXCEPT !.hasDebugInfo = FALSE] ELSE ft[i]]

serializeFunctionTable ==
    /\ pc = "functionTable"
    /\ LET ft == StrippedTable(BM.functionTable, options_.stripDebugInfoSection)
           n == Len(ft)
       IN /\ BM' = [BM EXCEPT !.functionTable = ft]
          /\ tableFlags' = tableFlags \o
                [i \in 1..n |-> [pass |-> Pass, fn |-> i,
                                 hasDebugInfo |-> ft[i].hasDebugInfo]]
          /\ out' = out \o
                [i \in 1..n |-> W("SmallFuncHeader", i,
                                  loc_ + (i - 1) * SizeofSmallFuncHeader,
                                  SizeofSmallFuncHeader)]
          /\ loc_' = loc_ + n * SizeofSmallFuncHeader
    /\ pc' = "stringTable"
    /\ UNCHANGED <<options_, isLayout_, fileLength_, stringTableBytes_,
                   debugInfoOffset_, idx, bcMap, header, stringOut,
                   debugHeader, asserts, dedupInLayout, skippedInEmit,
                   setCount, passes, resets, input, prior,
                   cjsOut, bodyOut>>

----------------------------------------------------------------------------
(* serializeStringTable                                                    *)

\* SmallStringTableEntry(entry, overflowCount): the descriptor itself when
\* offset and length fit, else the index into the overflow table and the
\* length that marks the record overflowed
SmallStringTableEntry(entry, overflowCount) ==
    IF entry.offset < INVALID_OFFSET /\ entry.length < INVALID_LENGTH
        THEN [offset |-> entry.offset, length |-> entry.length]
        ELSE [offset |-> overflowCount, length |-> INVALID_LENGTH]

isOverflowed(small) == small.length = INVALID_LENGTH

\* faulty variant: the compact record stores the descriptor's own position
RECURSIVE StringTableLoop_IndexByPosition(_, _, _)
StringTableLoop_IndexByPosition(table, k, acc) ==
    IF k > Len(table) THEN acc
    ELSE LET entry == table[k]
             small == SmallStringTableEntry(entry, k - 1)
         IN StringTableLoop_IndexByPosition(table, k + 1,
                [small |-> Append(acc.small, small),
                 overflow |-> IF isOverflowed(small)
                                 THEN Append(acc.overflow,
                                             [offset |-> entry.offset,
                                              length |-> entry.length])
                                 ELSE acc.overflow])

\* the loop of serializeStringTable from descriptor k on: acc holds the
\* compact records written and the overflow vector so far
RECURSIVE StringTableLoop(_, _, _)
StringTableLoop(table, k, acc) ==
    IF k > Len(table) THEN acc
    ELSE LET entry == table[k]
             small == SmallStringTableEntry(entry, Len(acc.overflow))
         IN StringTableLoop(table, k + 1,
                [small |-> Append(acc.small, small),
                 overflow |-> IF isOverflowed(small)
                                 THEN Append(acc.overflow,
                                             [offset |-> entry.offset,
                                              length |-> entry.length])
                                 ELSE acc.overflow])

serializeStringTable ==
    /\ pc = "stringTable"
    /\ LET stringTableBegin == loc_
           written == StringTableLoop(BM.stringTable, 1,
                                      [small |-> <<>>, overflow |-> <<>>])
           n == Len(written.small)
           afterSmall == loc_ + n * SizeofSmallStringTableEntry
           afterOverflow == afterSmall
                + Len(written.overflow) * SizeofOverflowStringTableEntry
           afterHashes == afterOverflow + BM.identifierHashes * SizeofUint32
       IN /\ stringOut' = written
          /\ stringTableBytes_' = afterOverflow - stringTableBegin
          /\ out' = out
                \o [i \in 1..n |-> W("SmallStringTableEntry", 0,
                                     loc_ + (i - 1) * SizeofSmallStringTableEntry,
                                     SizeofSmallStringTableEntry)]
                \o << W("OverflowStringTable", 0, afterSmall,
                        afterOverflow - afterSmall),
                      W("IdentifierHashes", 0, afterOverflow,
                        afterHashes - afterOverflow),
                      W("StringStorage", 0, afterHashes, BM.stringStorage) >>
          /\ loc_' = afterHashes + BM.stringStorage
    /\ pc' = "arrayBuffer"
    /\ UNCHANGED <<BM, options_, isLayout_, fileLength_, debugInfoOffset_, idx,
                   bcMap, header, tableFlags, debugHeader, asserts,
                   dedupInLayout, skippedInEmit, setCount, passes, resets,
                   input, prior,
                   cjsOut, bodyOut>>

----------------------------------------------------------------------------
(* serializeArrayBuffer, serializeObjectBuffer                             *)

serializeArrayBuffer ==
    /\ pc = "arrayBuffer"
    /\ out' = Append(out, W("ArrayBuffer", 0, loc_, BM.arrayBuffer))
    /\ loc_' = loc_ + BM.arrayBuffer
    /\ pc' = "objectBuffer"
    /\ UNCHANGED <<BM, options_, isLayout_, fileLength_, stringTableBytes_,
                   debugInfoOffset_, idx, bcMap, header, tableFlags, stringOut,
                   debugHeader, asserts, dedupInLayout, skippedInEmit,
                   setCount, passes, resets, input, prior,
                   cjsOut, bodyOut>>

serializeObjectBuffer ==
    /\ pc = "objectBuffer"
    /\ out' = out \o
          << W("ObjectKeyBuffer", 0, loc_, BM.objKeyBuffer),
             W("ObjectValueBuffer", 0, loc_ + BM.objKeyBuffer, BM.objValueBuffer) >>
    /\ loc_' = loc_ + BM.objKeyBuffer + BM.objValueBuffer
    /\ pc' = "regExps"
    /\ UNCHANGED <<BM, options_, isLayout_, fileLength_, stringTableBytes_,
                   debugInfoOffset_, idx, bcMap, header, tableFlags, stringOut,
                   debugHeader, asserts, dedupInLayout, skippedInEmit,
                   setCount, passes, resets, input, prior,
                   cjsOut, bodyOut>>

----------------------------------------------------------------------------
(* serializeRegExps                                                        *)

\* faulty variant: no pad(4) before the table
serializeRegExps_NoPad ==
    /\ pc = "regExps"
    /\ LET tableAt == loc_
           storageAt == tableAt + BM.regExpTable * SizeofRegExpTableEntry
       IN /\ out' = out \o
                << W("RegExpTable", 0, tableAt, storageAt - tableAt),
                   W("RegExpStorage", 0, storageAt, BM.regExpStorage) >>
          /\ loc_' = storageAt + BM.regExpStorage
    /\ pc' = "cjsModuleTable"
    /\ UNCHANGED <<BM, options_, isLayout_, fileLength_, stringTableBytes_,
                   debugInfoOffset_, idx, bcMap, header, tableFlags, stringOut,
                   debugHeader, asserts, dedupInLayout, skippedInEmit,
                   setCount, passes, resets, input, prior,
                   cjsOut, bodyOut>>

serializeRegExps ==
    /\ pc = "regExps"
    /\ LET tableAt == Pad(loc_, 4)
           storageAt == tableAt + BM.regExpTable * SizeofRegExpTableEntry
       IN /\ out' = out \o
                << W("RegExpTable", 0, tableAt, storageAt - tableAt),
                   W("RegExpStorage", 0, storageAt, BM.regExpStorage) >>
          /\ loc_' = storageAt + BM.regExpStorage
    /\ pc' = "cjsModuleTable"
    /\ UNCHANGED <<BM, options_, isLayout_, fileLength_, stringTableBytes_,
                   debugInfoOffset_, idx, bcMap, header, tableFlags, stringOut,
                   debugHeader, asserts, dedupInLayout, skippedInEmit,
                   setCount, passes, resets, input, prior,
                   cjsOut, bodyOut>>

----------------------------------------------------------------------------
(* serializeCJSModuleTable                                                 *)

\* faulty variant: the static table is left out
CJSModuleTableEntries_PairsOnly(bm) ==
    [i \in 1..Len(bm.cjsModuleTable) |->
        [form |-> "pair", first |-> bm.cjsModuleTable[i][1],
         second |-> bm.cjsModuleTable[i][2]]]

\* the entries the section holds: one per pair of the dynamic table, in the
\* table's order, then the elements of the static table
CJSModuleTableEntries(bm) ==
    [i \in 1..Len(bm.cjsModuleTable) |->
        [form |-> "pair", first |-> bm.cjsModuleTable[i][1],
         second |-> bm.cjsModuleTable[i][2]]]
    \o [i \in 1..Len(bm.cjsModuleTableStatic) |->
        [form |-> "static", first |-> bm.cjsModuleTableStatic[i], second |-> 0]]

serializeCJSModuleTable ==
    /\ pc = "cjsModuleTable"
    /\ LET tableAt == Pad(loc_, 4)
           entries == CJSModuleTableEntries(BM)
           n == Len(SelectSeq(entries, LAMBDA e : e.form = "pair"))
           staticAt == tableAt + n * (2 * SizeofUint32)
           staticLen == (Len(entries) - n) * SizeofUint32
       IN /\ out' = out
                \o [i \in 1..n |-> W("CJSModuleTableEntry", 0,
                                     tableAt + (i - 1) * (2 * SizeofUint32),
                                     2 * SizeofUint32)]
                \o << W("CJSModuleTableStatic", 0, staticAt, staticLen) >>
          /\ cjsOut' = [written |-> TRUE, entries |-> entries]
          /\ loc_' = staticAt + staticLen
    /\ pc' = "functionsBytecode"
    /\ idx' = 1
    /\ bcMap' = {}
    /\ UNCHANGED <<BM, options_, isLayout_, fileLength_, stringTableBytes_,
                   debugInfoOffset_, header, tableFlags, stringOut,
                   debugHeader, asserts, dedupInLayout, skippedInEmit,
                   setCount, passes, resets, input, prior, bodyOut>>

----------------------------------------------------------------------------
(* serializeFunctionsBytecode: one step per function of the table.         *)

\* faulty variant: the key leaves out the jump tables
DedupKey_OpcodesOnly(f) == <<f.opcodes, << >> >>

\* DedupKey of a function
DedupKey(f) == <<f.opcodes, f.jumpTables>>

\* bcMap.insert(key, loc): the entry already in the map wins
MapHas(map, key) == \E e \in map : e.key = key
\* faulty variant: the offset found in the map is not passed on
MapGet_Unset(map, key) == 0

MapGet(map, key) == (CHOOSE e \in map : e.key = key).loc
MapInsert(map, key, loc) ==
    IF MapHas(map, key) THEN map ELSE map \cup {[key |-> key, loc |-> loc]}

\* faulty variant: EMIT never takes a function for deduplicated
ReuseInEmit_Never(offset, loc) == FALSE

\* faulty variant: a function at the current position counts as deduplicated
ReuseInEmit_OrEqual(offset, loc) == offset <= loc

\* EMIT: "cheaply determine whether bytecode was deduplicated"
ReuseInEmit(offset, loc) == offset < loc

\* n zero bytes: pad() and the writeBinary('\0') loop
Zeros(n) == [k \in 1..n |-> 0]

\* writeBinaryArray of 32-bit words, least significant byte first; the words
\* of the model are below 256
WordBytes(words) ==
    [k \in 1..(Len(words) * SizeofUint32) |->
        IF k % SizeofUint32 = 1 THEN words[(k + 3) \div SizeofUint32] ELSE 0]

\* faulty variant: the number of zero bytes is rounded up
BodyPadding_RoundUp(size, percent) == (size * percent + 99) \div 100

\* number of zero bytes appended after a body of `size` opcode bytes
BodyPadding(size, percent) == (size * percent) \div 100

\* faulty variant: the zero bytes after a body are written in EMIT only
FunctionBody_ZerosInEmitOnly(loc, i, f, percent) ==
    LET afterOpcodes == loc + Len(f.opcodes)
        jumpAt == Pad(afterOpcodes, SizeofUint32)
        afterJump == jumpAt + Len(f.jumpTables) * SizeofUint32
        size == IF isLayout_ THEN 0 ELSE BodyPadding(Len(f.opcodes), percent)
        end == IF percent # 0
                  THEN Pad(afterJump + size, SizeofUint32)
                  ELSE afterJump
    IN [log |-> << W("Opcodes", i, loc, Len(f.opcodes)),
                   W("JumpTables", i, jumpAt, afterJump - jumpAt) >>
                \o IF percent # 0
                      THEN << W("BodyPadding", i, afterJump, size) >>
                      ELSE << >>,
        bytes |-> f.opcodes \o Zeros(jumpAt - afterOpcodes)
                  \o WordBytes(f.jumpTables)
                  \o IF percent # 0
                        THEN Zeros(size) \o Zeros(end - (afterJump + size))
                        ELSE << >>,
        loc |-> end]

\* the writes of one owned body starting at loc: opcodes, padding to a
\* word, jump tables and, with padFunctionBodiesPercent, the zero bytes and
\* the padding to a word after them
FunctionBody(loc, i, f, percent) ==
    LET afterOpcodes == loc + Len(f.opcodes)
        jumpAt == Pad(afterOpcodes, SizeofUint32)
        afterJump == jumpAt + Len(f.jumpTables) * SizeofUint32
        size == BodyPadding(Len(f.opcodes), percent)
        end == IF percent # 0
                  THEN Pad(afterJump + size, SizeofUint32)
                  ELSE afterJump
    IN [log |-> << W("Opcodes", i, loc, Len(f.opcodes)),
                   W("JumpTables", i, jumpAt, afterJump - jumpAt) >>
                \o IF percent # 0
                      THEN << W("BodyPadding", i, afterJump, size) >>
                      ELSE << >>,
        bytes |-> f.opcodes \o Zeros(jumpAt - afterOpcodes)
                  \o WordBytes(f.jumpTables)
                  \o IF percent # 0
                        THEN Zeros(size) \o Zeros(end - (afterJump + size))
                        ELSE << >>,
        loc |-> end]

\* faulty variant: the offset of an owned body is never recorded
SetsOffset_Never(layout) == FALSE

\* "if (isLayout_)" before setOffset(loc_)
SetsOffset(layout) == layout

\* the asserts of the EMIT branch that fail for a function at offset
EmitAsserts(offset, loc) ==
    (IF offset = 0 THEN {"Function lacks offset after layout"} ELSE {})
    \cup (IF offset > loc THEN {"Function has too large offset"} ELSE {})

serializeFunctionsBytecode ==
    /\ pc = "functionsBytecode"
    /\ LET f == BM.functionTable[idx]
           key == DedupKey(f)
           dedup == options_.optimizationEnabled
           found == dedup /\ isLayout_ /\ MapHas(bcMap, key)
           reuse == IF ~dedup THEN FALSE
                    ELSE IF isLayout_ THEN found
                    ELSE ReuseInEmit(f.offset, loc_)
           \* the offset the function has after this iteration
           offset == IF found THEN MapGet(bcMap, key)
                     ELSE IF ~reuse /\ SetsOffset(isLayout_) THEN loc_
                     ELSE f.offset
           \* the setOffset calls of this iteration
           calls == (IF found THEN 1 ELSE 0)
                    + (IF ~reuse /\ SetsOffset(isLayout_) THEN 1 ELSE 0)
           body == FunctionBody(loc_, idx, f, options_.padFunctionBodiesPercent)
       IN /\ bcMap' = IF dedup /\ isLayout_
                         THEN MapInsert(bcMap, key, loc_) ELSE bcMap
          /\ asserts' = IF dedup /\ ~isLayout_
                           THEN asserts \cup EmitAsserts(f.offset, loc_)
                           ELSE asserts
          /\ BM' = [BM EXCEPT !.functionTable[idx].offset = offset]
          /\ setCount' = [setCount EXCEPT ![idx].offset = @ + calls]
          /\ dedupInLayout' = IF found THEN dedupInLayout \cup {idx}
                              ELSE dedupInLayout
          /\ skippedInEmit' = IF reuse /\ ~isLayout_
                                 THEN skippedInEmit \cup {idx}
                                 ELSE skippedInEmit
          /\ out' = IF reuse THEN out ELSE out \o body.log
          /\ bodyOut' = IF reuse THEN bodyOut
                        ELSE [bodyOut EXCEPT ![Pass][idx] =
                                 [owned |-> TRUE, at |-> loc_,
                                  bytes |-> body.bytes]]
          /\ loc_' = IF reuse THEN loc_ ELSE body.loc
    /\ IF idx < NumFunctions
          THEN pc' = pc /\ idx' = idx + 1
          ELSE pc' = "functionInfo" /\ idx' = 1
    /\ UNCHANGED <<options_, isLayout_, fileLength_, stringTableBytes_,
                   debugInfoOffset_, header, tableFlags, stringOut,
                   debugHeader, passes, resets, input, prior,
                   cjsOut>>

----------------------------------------------------------------------------
(* serializeFunctionInfo: the loop of serialize(), one step per function.  *)

\* SmallFuncHeader(header).flags.overflowed: the function's header does not
\* fit the compact encoding
SmallFuncHeaderOverflowed(f) == f.overflowed

\* the large header, written when the small one overflowed
LargeHeader(loc, i, f) ==
    IF SmallFuncHeaderOverflowed(f)
        THEN LET at == Pad(loc, INFO_ALIGNMENT)
             IN [log |-> << W("FunctionHeader", i, at, SizeofFunctionHeader) >>,
                 loc |-> at + SizeofFunctionHeader]
        ELSE [log |-> << >>, loc |-> loc]

\* faulty variant: the table header is written for a function without handlers
serializeExceptionHandlerTable_AlwaysHeader(loc, i, f) ==
    LET at == Pad(loc, INFO_ALIGNMENT)
        handlersAt == at + SizeofExceptionHandlerTableHeader
        size == f.numHandlers * SizeofExceptionHandlerInfo
    IN [log |-> << W("ExceptionHandlerTableHeader", i, at,
                     SizeofExceptionHandlerTableHeader),
                   W("ExceptionHandlers", i, handlersAt, size) >>,
        loc |-> handlersAt + size]

serializeExceptionHandlerTable(loc, i, f) ==
    IF f.numHandlers = 0
        THEN [log |-> << >>, loc |-> loc]
        ELSE LET at == Pad(loc, INFO_ALIGNMENT)
                 handlersAt == at + SizeofExceptionHandlerTableHeader
                 size == f.numHandlers * SizeofExceptionHandlerInfo
             IN [log |-> << W("ExceptionHandlerTableHeader", i, at,
                              SizeofExceptionHandlerTableHeader),
                            W("ExceptionHandlers", i, handlersAt, size) >>,
                 loc |-> handlersAt + size]

serializeDebugOffsets(loc, i, f, strip) ==
    IF strip \/ ~f.hasDebugInfo
        THEN [log |-> << >>, loc |-> loc]
        ELSE LET at == Pad(loc, INFO_ALIGNMENT)
             IN [log |-> << W("DebugOffsets", i, at, SizeofDebugOffsets) >>,
                 loc |-> at + SizeofDebugOffsets]

\* the info offset recorded in LAYOUT
InfoOffset(loc) == AlignTo(loc, INFO_ALIGNMENT)

\* faulty variant: the info offset is set in both passes
SetsInfoOffset_Always(layout) == TRUE

\* "if (isLayout_)" before setInfoOffset
SetsInfoOffset(layout) == layout

serializeFunctionInfo ==
    /\ pc = "functionInfo"
    /\ LET f == BM.functionTable[idx]
           large == LargeHeader(loc_, idx, f)
           handlers == serializeExceptionHandlerTable(large.loc, idx, f)
           debug == serializeDebugOffsets(handlers.loc, idx, f,
                                          options_.stripDebugInfoSection)
       IN /\ BM' = IF SetsInfoOffset(isLayout_)
                      THEN [BM EXCEPT !.functionTable[idx].infoOffset =
                                          InfoOffset(loc_)]
                      ELSE BM
          /\ setCount' = IF SetsInfoOffset(isLayout_)
                            THEN [setCount EXCEPT ![idx].infoOffset = @ + 1]
                            ELSE setCount
          /\ out' = out \o large.log \o handlers.log \o debug.log
          /\ loc_' = debug.loc
    /\ IF idx < NumFunctions
          THEN pc' = pc /\ idx' = idx + 1
          ELSE pc' = "debugInfo" /\ idx' = 1
    /\ UNCHANGED <<options_, isLayout_, fileLength_, stringTableBytes_,
                   debugInfoOffset_, bcMap, header, tableFlags, stringOut,
                   debugHeader, asserts, dedupInLayout, skippedInEmit, passes,
                   resets, input, prior,
                   cjsOut, bodyOut>>

----------------------------------------------------------------------------
(* serializeDebugInfo                                                      *)

\* the header and the arrays written after it; with stripping an all-zero
\* header and nothing else
DebugInfoSection(at, info, strip) ==
    IF strip
        THEN [header |-> [written |-> TRUE, filenameCount |-> 0,
                          filenameStorageSize |-> 0, fileCount |-> 0,
                          lexicalDataOffset |-> 0, debugDataSize |-> 0],
              log |-> << W("DebugInfoHeader", 0, at, SizeofDebugInfoHeader) >>,
              loc |-> at + SizeofDebugInfoHeader]
        ELSE LET tableAt == at + SizeofDebugInfoHeader
                 storageAt == tableAt + info.filenameTable * SizeofStringTableEntry
                 filesAt == storageAt + info.filenameStorage
                 dataAt == filesAt + info.files * SizeofDebugFileRegion
             IN [header |-> [written |-> TRUE,
                             filenameCount |-> info.filenameTable,
                             filenameStorageSize |-> info.filenameStorage,
                             fileCount |-> info.files,
                             lexicalDataOffset |-> info.lexOffset,
                             debugDataSize |-> info.data],
                 log |-> << W("DebugInfoHeader", 0, at, SizeofDebugInfoHeader),
                            W("FilenameTable", 0, tableAt, storageAt - tableAt),
                            W("FilenameStorage", 0, storageAt, info.filenameStorage) >>
                         \o [i \in 1..info.files |->
                                W("DebugFileRegion", 0,
                                  filesAt + (i - 1) * SizeofDebugFileRegion,
                                  SizeofDebugFileRegion)]
                         \o << W("DebugData", 0, dataAt, info.data) >>,
                 loc |-> dataAt + info.data]

\* faulty variant: the section offset is recorded after the header is written
serializeDebugInfo_OffsetAfterHeader ==
    /\ pc = "debugInfo"
    /\ LET at == Pad(loc_, 4)
           section == DebugInfoSection(at, BM.debugInfo,
                                       options_.stripDebugInfoSection)
       IN /\ debugInfoOffset_' = at + SizeofDebugInfoHeader
          /\ debugHeader' = section.header
          /\ out' = out \o section.log
          /\ loc_' = section.loc
    /\ pc' = "endOfPass"
    /\ UNCHANGED <<BM, options_, isLayout_, fileLength_, stringTableBytes_,
                   idx, bcMap, header, tableFlags, stringOut, asserts,
                   dedupInLayout, skippedInEmit, setCount, passes, resets,
                   input, prior,
                   cjsOut, bodyOut>>

serializeDebugInfo ==
    /\ pc = "debugInfo"
    /\ LET at == Pad(loc_, 4)
           section == DebugInfoSection(at, BM.debugInfo,
                                       options_.stripDebugInfoSection)
       IN /\ debugInfoOffset_' = at
          /\ debugHeader' = section.header
          /\ out' = out \o section.log
          /\ loc_' = section.loc
    /\ pc' = "endOfPass"
    /\ UNCHANGED <<BM, options_, isLayout_, fileLength_, stringTableBytes_,
                   idx, bcMap, header, tableFlags, stringOut, asserts,
                   dedupInLayout, skippedInEmit, setCount, passes, resets,
                   input, prior,
                   cjsOut, bodyOut>>

----------------------------------------------------------------------------
(* The end of serialize(): after LAYOUT, finishLayout and the EMIT pass;   *)
(* after EMIT, return.                                                     *)

\* faulty variant: the length recorded is the start of the last section
finishLayout_SectionStart ==
    /\ pc = "endOfPass"
    /\ isLayout_
    /\ fileLength_' = debugInfoOffset_
    /\ asserts' = IF debugInfoOffset_ > 0 THEN asserts
                  ELSE asserts \cup {"Empty file after layout"}
    /\ isLayout_' = FALSE
    /\ loc_' = 0
    /\ resets' = resets + 1
    /\ pc' = "serialize"
    /\ UNCHANGED <<BM, options_, stringTableBytes_, debugInfoOffset_, idx,
                   bcMap, header, tableFlags, stringOut, debugHeader, out,
                   dedupInLayout, skippedInEmit, setCount, passes, input,
                   prior, cjsOut, bodyOut>>

\* faulty variant: the serializer stays in LAYOUT mode after the first pass
finishLayout_StaysInLayout ==
    /\ pc = "endOfPass"
    /\ isLayout_
    /\ fileLength_' = loc_
    /\ asserts' = IF loc_ > 0 THEN asserts
                  ELSE asserts \cup {"Empty file after layout"}
    /\ isLayout_' = isLayout_
    /\ loc_' = 0
    /\ resets' = resets + 1
    /\ pc' = "serialize"
    /\ UNCHANGED <<BM, options_, stringTableBytes_, debugInfoOffset_, idx,
                   bcMap, header, tableFlags, stringOut, debugHeader, out,
                   dedupInLayout, skippedInEmit, setCount, passes, input,
                   prior, cjsOut, bodyOut>>

finishLayout ==
    /\ pc = "endOfPass"
    /\ isLayout_
    /\ fileLength_' = loc_
    /\ asserts' = IF loc_ > 0 THEN asserts
                  ELSE asserts \cup {"Empty file after layout"}
    /\ isLayout_' = FALSE
    /\ loc_' = 0
    /\ resets' = resets + 1
    /\ pc' = "serialize"
    /\ UNCHANGED <<BM, options_, stringTableBytes_, debugInfoOffset_, idx,
                   bcMap, header, tableFlags, stringOut, debugHeader, out,
                   dedupInLayout, skippedInEmit, setCount, passes, input,
                   prior, cjsOut, bodyOut>>

return ==
    /\ pc = "endOfPass"
    /\ ~isLayout_
    /\ pc' = "done"
    /\ UNCHANGED <<BM, options_, loc_, isLayout_, fileLength_,
                   stringTableBytes_, debugInfoOffset_, idx, bcMap, header,
                   tableFlags, stringOut, debugHeader, out, asserts,
                   dedupInLayout, skippedInEmit, setCount, passes, resets,
                   input, prior,
                   cjsOut, bodyOut>>

----------------------------------------------------------------------------
(* A second LAYOUT pass: a freshly constructed serializer laid out on the  *)
(* module an earlier LAYOUT pass has written its offsets and flags to.     *)

LayoutResult(length) ==
    [known |-> TRUE,
     offsets |-> [i \in 1..NumFunctions |-> BM.functionTable[i].offset],
     infoOffsets |-> [i \in 1..NumFunctions |-> BM.functionTable[i].infoOffset],
     length |-> length]

relayout ==
    /\ ~prior.known
    /\ \/ pc = "endOfPass" /\ isLayout_
       \/ pc = "done"
    /\ prior' = LayoutResult(IF isLayout_ THEN loc_ ELSE fileLength_)
    /\ loc_' = 0
    /\ isLayout_' = TRUE
    /\ fileLength_' = 0
    /\ stringTableBytes_' = 0
    /\ debugInfoOffset_' = 0
    /\ pc' = "serialize"
    /\ idx' = 1
    /\ bcMap' = {}
    /\ header' = NoHeader
    /\ tableFlags' = <<>>
    /\ stringOut' = [small |-> <<>>, overflow |-> <<>>]
    /\ debugHeader' = NoDebugHeader
    /\ out' = <<>>
    /\ asserts' = {}
    /\ dedupInLayout' = {}
    /\ skippedInEmit' = {}
    /\ setCount' = [i \in 1..NumFunctions |-> [offset |-> 0, infoOffset |-> 0]]
    /\ passes' = <<>>
    /\ resets' = 0
    /\ cjsOut' = NoCJSOut
    /\ bodyOut' = NoBodyOut(NumFunctions)
    /\ UNCHANGED <<BM, options_, input>>

----------------------------------------------------------------------------
(* Specifications.                                                         *)

Next ==
    \/ serialize
    \/ serializeFunctionTable
    \/ serializeStringTable
    \/ serializeArrayBuffer
    \/ serializeObjectBuffer
    \/ serializeRegExps
    \/ serializeCJSModuleTable
    \/ serializeFunctionsBytecode
    \/ serializeFunctionInfo
    \/ serializeDebugInfo
    \/ finishLayout
    \/ return

NextRelayout == Next \/ relayout

PadPercents == {0, 225}

\* what stays the same in the modules of an initial condition that varies
\* something else: buffers of odd sizes, one dynamic CJS entry
PlainFunctions == Functions({<<1>>}, {<< >>}, {TRUE}, {0}, {FALSE})
PlainCJS == {c \in CJSTables : Len(c.dynamic) = 1}

\* modules that differ in their function bodies, under every option
InitBodies ==
    InitWith(Modules(FunctionTables(Functions(OpcodeArrays, JumpTableArrays,
                                              {TRUE}, {0}, {FALSE})),
                     {<< >>}, {3}, {2}, PlainCJS, {0}),
             Options(BOOLEAN, BOOLEAN, PadPercents))

\* modules that differ in what their functions' info blocks hold
InitInfo ==
    InitWith(Modules(FunctionTables(Functions({<<1>>}, {<< >>}, BOOLEAN,
                                              {0, 2}, BOOLEAN)),
                     {<< >>}, {3}, {2}, PlainCJS, {0}),
             Options(BOOLEAN, BOOLEAN, PadPercents))

\* modules that differ in their buffers and CJS module tables
InitTables ==
    InitWith(Modules({<<f>> : f \in PlainFunctions},
                     {<< >>}, 0..MaxBytes, 0..MaxBytes, CJSTables, {0, 1}),
             Options(BOOLEAN, BOOLEAN, PadPercents))

\* modules that differ in their string tables
InitStrings ==
    InitWith(Modules({<<f>> : f \in PlainFunctions},
                     StringTables, {3}, {2}, PlainCJS, {0}),
             Options({FALSE}, BOOLEAN, {0}))

Init == InitBodies \/ InitInfo \/ InitTables \/ InitStrings

Spec == Init /\ [][Next]_vars

\* serialize() is a sequential procedure: it keeps running until it returns
SpecFair == Spec /\ WF_vars(Next)

SpecRelayout == Init /\ [][NextRelayout]_vars

----------------------------------------------------------------------------
(* Properties.                                                             *)

Done == pc = "done"

FunctionIds == 1..NumFunctions

\* the content of a function's body: its opcodes and its jump tables
Content(f) == <<f.opcodes, f.jumpTables>>

\* a body of at least one byte
NonEmptyBody(f) == Len(f.opcodes) + Len(f.jumpTables) > 0

\* the writes of a pass that are of one of `kinds`, in the order written
Writes(pass, kinds) ==
    SelectSeq(out, LAMBDA w : w.pass = pass /\ w.kind \in kinds)

RECURSIVE TotalLen(_)
TotalLen(log) == IF log = << >> THEN 0 ELSE Head(log).len + TotalLen(Tail(log))

\* C1: with deduplication disabled, the stream position at the end of the
\* EMIT pass equals fileLength_ as finishLayout recorded it at the end of
\* the LAYOUT pass.
C1_EmitLengthIsLayoutLength ==
    (Done /\ ~options_.optimizationEnabled) => loc_ = fileLength_

C1_Witness ==
    /\ Done
    /\ ~options_.optimizationEnabled
    /\ options_.stripDebugInfoSection
    /\ options_.padFunctionBodiesPercent # 0
    /\ NumFunctions > 1
    /\ fileLength_ > 0
    /\ loc_ = fileLength_

\* the bytes the EMIT pass wrote, in writes of `kind`, for the functions
\* whose content is that of f
EmittedFor(f, kind) ==
    SelectSeq(out, LAMBDA w : /\ w.pass = "EMIT"
                              /\ w.kind = kind
                              /\ Content(BM.functionTable[w.fn]) = Content(f))

\* C2: with deduplication enabled, after serialize any two functions with
\* the same opcodes and jump tables have the same recorded opcode offset, and
\* the EMIT pass wrote the bytes of that body once, at that offset: the
\* opcode bytes written for all functions of that content are as many as one
\* function has, and likewise the jump-table bytes.
C2_IdenticalBodiesShareOneCopy ==
    (Done /\ options_.optimizationEnabled) =>
        \A i, j \in FunctionIds :
            LET fi == BM.functionTable[i]
                fj == BM.functionTable[j]
            IN Content(fi) = Content(fj) =>
                /\ fi.offset = fj.offset
                /\ TotalLen(EmittedFor(fi, "Opcodes")) = Len(fi.opcodes)
                /\ TotalLen(EmittedFor(fi, "JumpTables"))
                      = Len(fi.jumpTables) * SizeofUint32
                /\ \A k \in DOMAIN EmittedFor(fi, "Opcodes") :
                      EmittedFor(fi, "Opcodes")[k].len > 0 =>
                          EmittedFor(fi, "Opcodes")[k].at = fi.offset

C2_Witness ==
    /\ Done
    /\ options_.optimizationEnabled
    /\ \E i, j \in FunctionIds :
          /\ i < j
          /\ Content(BM.functionTable[i]) = Content(BM.functionTable[j])
          /\ Len(BM.functionTable[i].opcodes) = MaxOpcodes
          /\ BM.functionTable[i].offset = BM.functionTable[j].offset
          /\ j \in skippedInEmit
          /\ TotalLen(EmittedFor(BM.functionTable[i], "Opcodes")) = MaxOpcodes

InfoBlockKinds == {"FunctionHeader", "ExceptionHandlerTableHeader", "DebugOffsets"}
CJSKinds == {"CJSModuleTableEntry", "CJSModuleTableStatic"}

\* C4: every recorded info offset is a multiple of INFO_ALIGNMENT; every
\* overflow header, exception-handler table and debug-offset record starts at
\* a multiple of INFO_ALIGNMENT; the regexp table, the CJS module table and
\* the debug-info header start at a multiple of 4.
C4_Alignment ==
    /\ \A i \in FunctionIds :
          BM.functionTable[i].infoOffset % INFO_ALIGNMENT = 0
    /\ \A k \in DOMAIN out :
          /\ out[k].kind \in InfoBlockKinds => out[k].at % INFO_ALIGNMENT = 0
          /\ out[k].kind \in {"RegExpTable", "DebugInfoHeader"} \cup CJSKinds
                => out[k].at % 4 = 0

\* a write of `kind` in the EMIT pass whose predecessor in the log ended off
\* a 4-byte boundary
PaddedBefore(kind) ==
    \E k \in DOMAIN out :
        /\ k > 1
        /\ out[k].pass = "EMIT"
        /\ out[k].kind = kind
        /\ (out[k - 1].at + out[k - 1].len) % 4 # 0
        /\ out[k].at % 4 = 0

C4_Witness ==
    /\ Done
    /\ PaddedBefore("RegExpTable")
    /\ \E k \in DOMAIN out : PaddedBefore(out[k].kind) /\ out[k].kind \in CJSKinds
    /\ \A kind \in InfoBlockKinds \cup {"DebugInfoHeader"} :
          \E k \in DOMAIN out : out[k].pass = "EMIT" /\ out[k].kind = kind
    /\ \E i \in FunctionIds : BM.functionTable[i].infoOffset > 0

\* C5: the CJS module count of the header is negative exactly when the
\* module's static CJS table is not empty, and then its magnitude is the
\* number of static entries; otherwise it is the number of dynamic entries.
C5_CJSModuleCount ==
    header.written =>
        /\ header.cjsModuleCount < 0 <=> input.cjsModuleTableStatic # << >>
        /\ input.cjsModuleTableStatic # << >> =>
              0 - header.cjsModuleCount = Len(input.cjsModuleTableStatic)
        /\ input.cjsModuleTableStatic = << >> =>
              /\ header.cjsModuleCount >= 0
              /\ header.cjsModuleCount = Len(input.cjsModuleTable)

C5_Witness ==
    /\ Done
    /\ header.cjsModuleCount = 0 - MaxCJS
    /\ Len(input.cjsModuleTableStatic) = MaxCJS

\* a descriptor the compact encoding holds as it is
Fits(d) == d.offset < INVALID_OFFSET /\ d.length < INVALID_LENGTH

\* C6: for every descriptor whose offset or length does not fit the compact
\* encoding, the compact record written is marked overflowed and the index it
\* stores selects, in the overflow table, the descriptor's own (offset,
\* length); the overflow table holds the overflowing descriptors in string
\* table order and is written after all compact records.
C6_StringOverflowRoundTrip ==
    Len(stringOut.small) = Len(BM.stringTable) =>
        /\ \A k \in DOMAIN BM.stringTable :
              ~Fits(BM.stringTable[k]) =>
                  /\ isOverflowed(stringOut.small[k])
                  /\ stringOut.small[k].offset + 1 \in DOMAIN stringOut.overflow
                  /\ stringOut.overflow[stringOut.small[k].offset + 1]
                        = BM.stringTable[k]
        /\ stringOut.overflow = SelectSeq(BM.stringTable, LAMBDA d : ~Fits(d))
        /\ \A a, b \in DOMAIN out :
              (/\ out[a].kind = "SmallStringTableEntry"
               /\ out[b].kind = "OverflowStringTable"
               /\ out[a].pass = out[b].pass)
                  => (a < b /\ out[a].at + out[a].len <= out[b].at)

C6_Witness ==
    /\ Done
    /\ Len(BM.stringTable) > 1
    /\ Fits(BM.stringTable[1])
    /\ ~Fits(BM.stringTable[2])
    /\ stringOut.small[2].offset = 0
    /\ stringOut.overflow = << BM.stringTable[2] >>

DebugSectionBodyKinds ==
    {"FilenameTable", "FilenameStorage", "DebugFileRegion", "DebugData"}

\* C7: with stripDebugInfoSection, every compact header written to the
\* function table, in either pass, has hasDebugInfo false; after serialize
\* every function's flag is false; the debug-info section is one header of
\* five zero fields and nothing else; no debug-offset record is written.
C7_StripDebugInfo ==
    options_.stripDebugInfoSection =>
        /\ \A k \in DOMAIN tableFlags : ~tableFlags[k].hasDebugInfo
        /\ \A k \in DOMAIN out :
              out[k].kind \notin DebugSectionBodyKinds \cup {"DebugOffsets"}
        /\ debugHeader.written =>
              /\ debugHeader.filenameCount = 0
              /\ debugHeader.filenameStorageSize = 0
              /\ debugHeader.fileCount = 0
              /\ debugHeader.lexicalDataOffset = 0
              /\ debugHeader.debugDataSize = 0
        /\ Done =>
              /\ \A i \in FunctionIds : ~BM.functionTable[i].hasDebugInfo
              /\ Len(tableFlags) = 2 * NumFunctions
              /\ debugHeader.written
              /\ Len(Writes("LAYOUT", {"DebugInfoHeader"})) = 1
              /\ Len(Writes("EMIT", {"DebugInfoHeader"})) = 1

C7_Witness ==
    /\ Done
    /\ options_.stripDebugInfoSection
    /\ \A i \in FunctionIds : input.functionTable[i].hasDebugInfo
    /\ \A i \in FunctionIds : ~BM.functionTable[i].hasDebugInfo
    /\ NumFunctions > 1

\* C8: a second LAYOUT pass from position 0 on the same module records the
\* same opcode offset and info offset for every function, and ends at the
\* same total length, as the first, with deduplication enabled or disabled.
C8_LayoutIdempotent ==
    (prior.known /\ pc = "endOfPass" /\ isLayout_) => LayoutResult(loc_) = prior

C8_Witness ==
    /\ prior.known
    /\ pc = "endOfPass"
    /\ isLayout_
    /\ options_.optimizationEnabled
    /\ dedupInLayout # {}
    /\ LayoutResult(loc_) = prior
    /\ prior.length > 0

\* the recorded offsets of all functions
Offsets ==
    [i \in FunctionIds |-> <<BM.functionTable[i].offset,
                            BM.functionTable[i].infoOffset>>]

\* C9: during one call of serialize no step of the EMIT pass changes a
\* function's opcode offset or info offset, and each of the two has been
\* assigned exactly once when the LAYOUT pass ends and from then on.
C9_OffsetsAssignedOnceInLayout ==
    /\ [][~isLayout_ => Offsets' = Offsets]_vars
    /\ []((~isLayout_ \/ pc = "endOfPass") =>
            \A i \in FunctionIds :
                setCount[i].offset = 1 /\ setCount[i].infoOffset = 1)

C9_Witness ==
    /\ Done
    /\ dedupInLayout # {}
    /\ skippedInEmit = dedupInLayout
    /\ \A i \in FunctionIds :
          /\ setCount[i].offset = 1 /\ setCount[i].infoOffset = 1
          /\ BM.functionTable[i].offset > 0
          /\ BM.functionTable[i].infoOffset > 0

\* where serializeCJSModuleTable began to write in the EMIT pass
CJSTableStart == Head(Writes("EMIT", CJSKinds)).at
RegExpStorageEnd ==
    LET w == Head(Writes("EMIT", {"RegExpStorage"})) IN w.at + w.len

\* C10 as claimed: the CJS module table offset of the emitted header is the
\* position at which serializeCJSModuleTable begins to write in EMIT.
C10_HeaderOffsetIsTablePosition ==
    Done => header.cjsModuleOffset = CJSTableStart

\* C10 as amended: the CJS module table offset of the emitted header is the
\* value of the module's getCJSModuleOffset(), whatever the position of the
\* table; the table itself begins at the 4-byte-aligned position right after
\* the regexp storage.
C10_HeaderOffsetIsModuleValue ==
    /\ header.written => header.cjsModuleOffset = input.cjsModuleOffset
    /\ Done =>
          /\ CJSTableStart % 4 = 0
          /\ CJSTableStart >= RegExpStorageEnd
          /\ CJSTableStart - RegExpStorageEnd < 4

C10_Witness ==
    /\ Done
    /\ header.cjsModuleOffset = 1
    /\ input.cjsModuleOffset = 1
    /\ CJSTableStart > RegExpStorageEnd
    /\ header.cjsModuleOffset # CJSTableStart

\* C11: under every combination of options the header written in the EMIT
\* pass holds what the EMIT pass itself produces: its file length is the
\* final stream position of EMIT, its debug-info offset is the position at
\* which EMIT writes the debug-info header, and its string-table byte size
\* is the number of bytes EMIT writes as compact and overflow string records.
C11_EmitHeaderMatchesEmit ==
    Done =>
        /\ header.written
        /\ header.fileLength = loc_
        /\ header.debugInfoOffset = Head(Writes("EMIT", {"DebugInfoHeader"})).at
        /\ header.stringTableBytes =
              TotalLen(Writes("EMIT", {"SmallStringTableEntry",
                                       "OverflowStringTable"}))

C11_Witness ==
    /\ Done
    /\ options_.optimizationEnabled
    /\ skippedInEmit # {}
    /\ header.fileLength = loc_
    /\ header.fileLength > header.debugInfoOffset
    /\ header.debugInfoOffset > 0

C11_StringsWitness ==
    /\ Done
    /\ stringOut.overflow # << >>
    /\ Len(stringOut.small) > Len(stringOut.overflow)
    /\ header.stringTableBytes =
          Len(stringOut.small) * SizeofSmallStringTableEntry
          + Len(stringOut.overflow) * SizeofOverflowStringTableEntry

\* the writes of the EMIT pass that belong to function i and are of `kinds`
EmitWritesOf(i, kinds) ==
    SelectSeq(out, LAMBDA w : w.pass = "EMIT" /\ w.fn = i /\ w.kind \in kinds)

\* C12: in the EMIT pass, whenever serializeFunctionsBytecode writes the
\* opcode bytes of a function the stream position is that function's
\* recorded opcode offset, and whenever serializeFunctionInfo writes the
\* first sub-block present for a function that sub-block starts at the
\* function's recorded info offset, with deduplication enabled or disabled.
C12_EmitWritesAtRecordedOffsets ==
    \A i \in FunctionIds :
        /\ \A k \in 1..Len(EmitWritesOf(i, {"Opcodes"})) :
              EmitWritesOf(i, {"Opcodes"})[k].at = BM.functionTable[i].offset
        /\ EmitWritesOf(i, InfoBlockKinds) # << >> =>
              Head(EmitWritesOf(i, InfoBlockKinds)).at
                  = BM.functionTable[i].infoOffset

C12_Witness ==
    /\ Done
    /\ options_.optimizationEnabled
    /\ \E i \in FunctionIds :
          /\ EmitWritesOf(i, {"Opcodes"}) # << >>
          /\ Head(EmitWritesOf(i, {"Opcodes"})).at = BM.functionTable[i].offset
    /\ \E i \in FunctionIds :
          /\ i > 1
          /\ ~input.functionTable[i].overflowed
          /\ input.functionTable[i].numHandlers > 0
          /\ Head(EmitWritesOf(i, InfoBlockKinds)).kind
                 = "ExceptionHandlerTableHeader"
          /\ Head(EmitWritesOf(i, InfoBlockKinds)).at
                 = BM.functionTable[i].infoOffset

\* the bytes the EMIT pass writes for function i in the bytecode section
EmitBodyBytes(i) ==
    TotalLen(EmitWritesOf(i, {"Opcodes", "JumpTables", "BodyPadding"}))

C13_EmptyBodyWitness ==
    /\ Done
    /\ options_.optimizationEnabled
    /\ dedupInLayout # {}
    /\ skippedInEmit = {}

\* the sections in the order serialize() calls them
SectionSequence ==
    << "serialize", "functionTable", "stringTable", "arrayBuffer",
       "objectBuffer", "regExps", "cjsModuleTable", "functionsBytecode",
       "functionInfo", "debugInfo", "endOfPass" >>

SectionIndex(p) == CHOOSE k \in 1..Len(SectionSequence) : SectionSequence[k] = p

\* a step that goes to the next section, stays in a per-function loop,
\* starts the second pass or returns
C14_StepInSequence ==
    \/ pc' = pc /\ pc \in {"functionsBytecode", "functionInfo"} /\ idx' = idx + 1
    \/ pc # "endOfPass" /\ pc' # "done"
          /\ SectionIndex(pc') = SectionIndex(pc) + 1
    \/ pc = "endOfPass" /\ isLayout_ /\ ~isLayout_' /\ pc' = "serialize"
          /\ loc_' = 0 /\ resets' = resets + 1
    \/ pc = "endOfPass" /\ ~isLayout_ /\ pc' = "done"

\* the passes begun so far are LAYOUT, then EMIT, and nothing after; the
\* position has been reset once exactly when the serializer is in EMIT mode
C14_PassesInOrder ==
    /\ passes \in {<< >>, <<"LAYOUT">>, <<"LAYOUT", "EMIT">>}
    /\ isLayout_ => passes # <<"LAYOUT", "EMIT">> /\ resets = 0
    /\ ~isLayout_ => passes # << >> /\ resets = 1
    /\ (~isLayout_ /\ pc = "serialize") => loc_ = 0
    /\ Done => passes = <<"LAYOUT", "EMIT">> /\ ~isLayout_ /\ ~ENABLED Next

\* C14: a call of serialize on a fresh serializer runs the section sequence
\* twice, first in LAYOUT and then in EMIT, resets the position to 0 once,
\* between the two passes (the only step at which the position decreases or
\* the mode changes), and then returns: it never goes back to LAYOUT and
\* never starts a third pass.
C14_TwoPassesThenDone ==
    /\ []C14_PassesInOrder
    /\ [][/\ C14_StepInSequence
          /\ (loc_' < loc_ \/ isLayout_' # isLayout_) =>
                (pc = "endOfPass" /\ isLayout_ /\ ~isLayout_' /\ loc_' = 0)
          /\ resets' # resets => (pc = "endOfPass" /\ loc_' = 0)]_vars
    /\ <>Done

C14_Witness ==
    /\ Done
    /\ passes = <<"LAYOUT", "EMIT">>
    /\ resets = 1
    /\ Len(Writes("LAYOUT", {"DebugInfoHeader"})) = 1
    /\ Len(Writes("EMIT", {"DebugInfoHeader"})) = 1
    /\ loc_ > 0

\* C15: no contract check of the serializer fails during serialize, for any
\* module and any options: the file length recorded at the end of LAYOUT is
\* positive, and in the EMIT pass with deduplication enabled every function,
\* when the bytecode loop reaches it, has a recorded opcode offset that is
\* not zero and not greater than the current position.
C15_NoContractCheckFails ==
    /\ asserts = {}
    /\ ~isLayout_ => fileLength_ > 0
    /\ (pc = "functionsBytecode" /\ ~isLayout_ /\ options_.optimizationEnabled) =>
          /\ BM.functionTable[idx].offset # 0
          /\ BM.functionTable[idx].offset <= loc_

C15_Witness ==
    /\ Done
    /\ options_.optimizationEnabled
    /\ dedupInLayout # {}
    /\ dedupInLayout # skippedInEmit
    /\ fileLength_ > 0
    /\ asserts = {}

\* the number of writes of one kind a pass has made for function i
BlocksWritten(pass, i, kind) ==
    Len(SelectSeq(out, LAMBDA w : w.pass = pass /\ w.fn = i /\ w.kind = kind))

\* the function, as given to serialize, asks for none of the three sub-blocks
NoInfoBlocks(i) ==
    /\ ~input.functionTable[i].overflowed
    /\ input.functionTable[i].numHandlers = 0
    /\ ~input.functionTable[i].hasDebugInfo \/ options_.stripDebugInfoSection

\* C16: serializeFunctionInfo leaves the stream position where it is, and
\* writes nothing, for a function whose header is not overflowed, that has
\* no exception handlers and that has no debug info or is serialized with
\* stripping; and in each pass the large header is written exactly when the
\* header is overflowed, the exception-handler table exactly when there are
\* handlers, and the debug offsets exactly when the function has debug info
\* and stripping is off, whatever the other two conditions are.
C16_InfoBlocksIndependent ==
    /\ [][(pc = "functionInfo" /\ NoInfoBlocks(idx)) =>
              (loc_' = loc_ /\ out' = out)]_vars
    /\ [](Done =>
            \A i \in FunctionIds : \A pass \in {"LAYOUT", "EMIT"} :
                /\ BlocksWritten(pass, i, "FunctionHeader") =
                      IF input.functionTable[i].overflowed THEN 1 ELSE 0
                /\ BlocksWritten(pass, i, "ExceptionHandlerTableHeader") =
                      IF input.functionTable[i].numHandlers > 0 THEN 1 ELSE 0
                /\ BlocksWritten(pass, i, "DebugOffsets") =
                      IF /\ input.functionTable[i].hasDebugInfo
                         /\ ~options_.stripDebugInfoSection
                         THEN 1 ELSE 0)

C16_Witness ==
    /\ Done
    /\ NumFunctions = 2
    /\ NoInfoBlocks(1)
    /\ input.functionTable[1].hasDebugInfo
    /\ BM.functionTable[1].infoOffset = BM.functionTable[2].infoOffset
    /\ ~input.functionTable[2].overflowed
    /\ input.functionTable[2].numHandlers > 0
    /\ ~input.functionTable[2].hasDebugInfo
    /\ BlocksWritten("EMIT", 2, "ExceptionHandlerTableHeader") = 1

\* |n|
Magnitude(n) == IF n < 0 THEN 0 - n ELSE n

\* C17: the section serializeCJSModuleTable writes holds entries of one form
\* only: when the module's static table is empty, the (source id, function
\* index) pairs of the dynamic table in the table's order; when the static
\* table is not empty, the static table's entries and nothing else. The
\* number of entries written is the magnitude of the header's CJS module
\* count.
C17_CJSTableOneForm ==
    cjsOut.written =>
        /\ input.cjsModuleTableStatic = << >> =>
              cjsOut.entries =
                  [i \in 1..Len(input.cjsModuleTable) |->
                      [form |-> "pair",
                       first |-> input.cjsModuleTable[i][1],
                       second |-> input.cjsModuleTable[i][2]]]
        /\ input.cjsModuleTableStatic # << >> =>
              cjsOut.entries =
                  [i \in 1..Len(input.cjsModuleTableStatic) |->
                      [form |-> "static",
                       first |-> input.cjsModuleTableStatic[i],
                       second |-> 0]]
        /\ \A i, j \in DOMAIN cjsOut.entries :
              cjsOut.entries[i].form = cjsOut.entries[j].form
        /\ header.written
        /\ Len(cjsOut.entries) = Magnitude(header.cjsModuleCount)

C17_Witness ==
    /\ Done
    /\ cjsOut.written
    /\ Len(cjsOut.entries) = MaxCJS
    /\ cjsOut.entries[1].form = "static"
    /\ header.cjsModuleCount = 0 - MaxCJS

C17_DynamicWitness ==
    /\ Done
    /\ Len(cjsOut.entries) = MaxCJS
    /\ cjsOut.entries[MaxCJS] =
          [form |-> "pair", first |-> 2 * MaxCJS, second |-> MaxCJS]
    /\ header.cjsModuleCount = MaxCJS

\* the least multiple of 4 that is at least x
Ceil4(x) == CHOOSE m \in x..(x + 3) : m % 4 = 0

\* floor(n * p / 100)
FloorPercent(n, p) == CHOOSE q \in 0..(n * p) : 100 * q <= n * p /\ n * p < 100 * (q + 1)

\* the body the claim describes for function i written from position `at`
C18_BodyAsDescribed(i, at, bytes) ==
    LET f == input.functionTable[i]
        n == Len(f.opcodes)
        j == Len(f.jumpTables)
        p == options_.padFunctionBodiesPercent
        words == Ceil4(at + n) - at
        zeros == words + 4 * j
        padded == zeros + FloorPercent(n, p)
        end == IF p # 0 THEN Ceil4(at + padded) - at ELSE zeros
    IN /\ Len(bytes) = end
       /\ \A k \in 1..n : bytes[k] = f.opcodes[k]
       /\ \A k \in (n + 1)..words : bytes[k] = 0
       /\ \A w \in 1..j :
             /\ bytes[words + 4 * (w - 1) + 1] = f.jumpTables[w]
             /\ \A k \in 2..4 : bytes[words + 4 * (w - 1) + k] = 0
       /\ \A k \in (zeros + 1)..end : bytes[k] = 0
       /\ at % 4 = 0 => (at + end) % 4 = 0

\* C18: a function that owns its bytes, with n opcode bytes, j jump-table
\* words and padFunctionBodiesPercent p, has as its body the n opcode bytes,
\* zero bytes up to a 4-byte boundary, the j words and, when p is not zero,
\* floor(n*p/100) zero bytes and then zero bytes up to a 4-byte boundary; the
\* position advances by the length of that body; a function that owns its
\* bytes in LAYOUT owns the same bytes at the same position in EMIT; and a
\* body that starts on a 4-byte boundary ends on one.
C18_OwnedBody ==
    /\ [](\A pass \in {"LAYOUT", "EMIT"} : \A i \in FunctionIds :
             bodyOut[pass][i].owned =>
                 C18_BodyAsDescribed(i, bodyOut[pass][i].at,
                                     bodyOut[pass][i].bytes))
    /\ [](\A i \in FunctionIds :
             /\ (bodyOut["LAYOUT"][i].owned /\ bodyOut["EMIT"][i].owned) =>
                   bodyOut["LAYOUT"][i] = bodyOut["EMIT"][i]
             /\ (Done /\ bodyOut["LAYOUT"][i].owned) => bodyOut["EMIT"][i].owned)
    /\ [][(pc = "functionsBytecode" /\ bodyOut' # bodyOut) =>
             /\ bodyOut'[Pass][idx].at = loc_
             /\ loc_' = loc_ + Len(bodyOut'[Pass][idx].bytes)]_vars

C18_Witness ==
    /\ Done
    /\ options_.padFunctionBodiesPercent = 225
    /\ \E i \in FunctionIds :
          /\ bodyOut["EMIT"][i].owned
          /\ bodyOut["EMIT"][i].at % 4 = 0
          /\ input.functionTable[i].opcodes = <<1, 2>>
          /\ input.functionTable[i].jumpTables = <<1>>
          /\ bodyOut["EMIT"][i].bytes = <<1, 2, 0, 0, 1, 0, 0, 0, 0, 0, 0, 0>>
          /\ bodyOut["LAYOUT"][i] = bodyOut["EMIT"][i]

C18_NoPaddingWitness ==
    /\ Done
    /\ options_.padFunctionBodiesPercent = 0
    /\ \E i \in FunctionIds :
          /\ bodyOut["EMIT"][i].owned
          /\ bodyOut["EMIT"][i].bytes = <<1, 2, 0, 0>>

\* the module with every function's opcode offset, info offset and
\* hasDebugInfo flag put back to what serialize was given
WithRecordedFieldsOf(bm, original) ==
    [bm EXCEPT !.functionTable =
        [i \in 1..Len(bm.functionTable) |->
            [bm.functionTable[i] EXCEPT
                !.offset = original.functionTable[i].offset,
                !.infoOffset = original.functionTable[i].infoOffset,
                !.hasDebugInfo = original.functionTable[i].hasDebugInfo]]]

\* C19: at every point of both passes the module differs from the module
\* serialize was given in nothing but the functions' opcode offsets, info
\* offsets and hasDebugInfo flags: the function table has the same length
\* and order, and opcodes, jump tables, strings, buffers and tables are as
\* given. Without stripDebugInfoSection every hasDebugInfo flag is as given;
\* with it a flag is as given or cleared.
C19_OnlyOffsetsAndFlagsChange ==
    /\ Len(BM.functionTable) = Len(input.functionTable)
    /\ WithRecordedFieldsOf(BM, input) = input
    /\ \A i \in FunctionIds :
          /\ ~options_.stripDebugInfoSection =>
                BM.functionTable[i].hasDebugInfo
                    = input.functionTable[i].hasDebugInfo
          /\ BM.functionTable[i].hasDebugInfo
                \in {input.functionTable[i].hasDebugInfo, FALSE}

C19_Witness ==
    /\ Done
    /\ ~options_.stripDebugInfoSection
    /\ BM # input
    /\ NumFunctions = 2
    /\ BM.functionTable[1].hasDebugInfo
    /\ ~BM.functionTable[2].hasDebugInfo
    /\ BM.functionTable[2].offset > 0
    /\ BM.functionTable[2].infoOffset > 0

C19_StripWitness ==
    /\ Done
    /\ options_.stripDebugInfoSection
    /\ \E i \in FunctionIds :
          input.functionTable[i].hasDebugInfo /\ ~BM.functionTable[i].hasDebugInfo
    /\ WithRecordedFieldsOf(BM, input) = input

====
